---- MODULE Spec2Model ----
(***************************************************************************)
(* The 2048 board engine of src/src/game.rs: the line merge, the four      *)
(* directional moves, the tile spawn, the bounded undo history and the     *)
(* game-over scan, as a state machine over (board, score, previous_states).*)
(* With it: the key loop of src/src/app.rs that drives the engine, and the *)
(* engine without undo of src/src/main.rs, run beside the first.           *)
(***************************************************************************)
EXTENDS Integers, Sequences, FiniteSets, TLC

\* ------------------------------------------------------------ constants
\* game.rs:4  pub const SIZE: usize = 4;
SIZE == 4
\* game.rs:5  pub const UNDO_LIMIT: usize = 10;
UNDO_LIMIT == 10
\* The cells and the score are u32 (game.rs:36-37).  Every board these
\* specifications reach keeps its tiles and its score far below 2^31, so the
\* arithmetic below is exact integer arithmetic: no u32 operation wraps.

\* ------------------------------------------------------------ bounds
\* Spec: board-changing moves made minus moves undone never exceed MaxMoves
MaxMoves == 2
\* SpecCap: board-changing moves made minus moves undone never exceed MaxCapMoves
MaxCapMoves == 11
\* SpecApp: board-changing moves made under App::run on one game, minus moves
\* undone, never exceed MaxAppMoves
MaxAppMoves == 2
\* SpecLate: board-changing moves made on the played game, minus moves
\* undone, never exceed MaxLateMoves
MaxLateMoves == 2
\* rows of the boards SpecHigh starts from: the first NumHighRows of HighRowChoices
NumHighRows == 4
\* SpecPair: each pair of engines makes at most MaxPairMoves board-changing moves
MaxPairMoves == 2
\* the count of no-op moves after a board-changing move saturates here
MaxNoops == 2
\* lines of SpecLine hold 0 or 2^1 .. 2^MaxExp
MaxExp == 3
\* rows of the boards SpecBoard starts from: the first NumRowChoices of RowChoices
NumRowChoices == 4
\* rows of the boards SpecOver starts from: the first NumOverRows of OverRowChoices
NumOverRows == 4

\* the count of consecutive undo calls saturates one past the capacity
MaxUndoRun == UNDO_LIMIT + 1

VARIABLES
  board,            \* Game2048.board: SIZE rows of SIZE cells
  score,            \* Game2048.score
  previous_states,  \* Game2048.previous_states: sequence of <<board, score>>
  line,             \* the `line` argument of merge(), for the line-level runs
  op,               \* the last call: "init", "move", "undo", "merge",
                    \* "game_over", "spawn" or "restart"
  dir,              \* the direction of the last move call, else "none"
  ret,              \* the value the last call returned
  preBoard,         \* board when the last call was entered
  preScore,         \* score when the last call was entered
  preHist,          \* previous_states when the last call was entered
  preLine,          \* line when the last merge() call was entered
  shifted,          \* board of the last move after the shift, before the spawn
  depth,            \* board-changing moves made minus undo calls that succeeded,
                    \* never below 0
  run,              \* the calls since the last board-changing move
  pres,             \* one record per board-changing move, kept while `unmixed`:
                    \* its pre-move <<board, score>> and the number of no-op
                    \* move calls made since it
  nundo,            \* consecutive undo calls so far, counted while `unmixed`
  unmixed,          \* TRUE while the run keeps the log `pres` and no move call
                    \* has followed an undo call
  mode,             \* where App::run stands: "main" (outer loop), "over" (the
                    \* loop of the game-over screen), "quit" (returned); "none"
                    \* when the engine is driven without the App
  key,              \* the last key event App::run read, else "none"
  preMode,          \* mode when that key event was read
  prevOp,           \* under App::run, the call on the game before the last one
  mainBoard,        \* main.rs Game2048.board: the engine without undo, run
                    \* beside the engine of game.rs; all zero where it is
                    \* not run
  mainScore,        \* main.rs Game2048.score
  mainRet           \* the value the last call on the engine of main.rs returned

\* what App::run adds to the state of the engine
appvars == <<mode, key, preMode, prevOp>>
\* the state of the engine of main.rs
mainvars == <<mainBoard, mainScore, mainRet>>

vars == <<board, score, previous_states, line, op, dir, ret, preBoard, preScore,
          preHist, preLine, shifted, depth, run, pres, nundo, unmixed,
          mode, key, preMode, prevOp, mainBoard, mainScore, mainRet>>

Idx == 1..SIZE
\* game.rs:9-14  MovementDirection
Dirs == {"Up", "Down", "Left", "Right"}

Min(a, b) == IF a < b THEN a ELSE b
Max(a, b) == IF a > b THEN a ELSE b

\* ------------------------------------------------------------ merge
\* game.rs:77-80: the next index after i whose cell is not zero, or Len+1
RECURSIVE NextNonZero(_, _)
NextNonZero(l, j) ==
  IF j <= Len(l) /\ l[j] = 0 THEN NextNonZero(l, j + 1) ELSE j

\* game.rs:83  line[i] *= 2  (mutant: the cell is doubled twice)
DoubledTwiceBug(v) == 4 * v
\* (mutant: a slip that adds 2)
DoubledBug(v) == v + 2
Doubled(v) == 2 * v

\* game.rs:82  self.score += line[i], read before line 83 doubles the cell
\* (mutant: the two statements swapped, so the doubled value is added)
AddScoreBug(sc, v) == sc + 2 * v
AddScore(sc, v) == sc + v

\* game.rs:81  the merge condition
CanMerge(l, i, j) == j <= Len(l) /\ l[i] = l[j]

\* (mutant: after a merge the scan stays on cell i, so the tile just made is
\* compared again)
RECURSIVE MergeScanBug(_, _, _, _)
MergeScanBug(l, i, sc, mv) ==
  IF i > Len(l) THEN [line |-> l, score |-> sc, moved |-> mv]
  ELSE IF l[i] = 0 THEN MergeScanBug(l, i + 1, sc, mv)
  ELSE LET j == NextNonZero(l, i + 1) IN
       IF CanMerge(l, i, j)
       THEN MergeScanBug([l EXCEPT ![i] = Doubled(l[i]), ![j] = 0],
                         i, AddScore(sc, l[i]), TRUE)
       ELSE MergeScanBug(l, i + 1, sc, mv)

\* game.rs:71-88: the while loop over i
RECURSIVE MergeScan(_, _, _, _)
MergeScan(l, i, sc, mv) ==
  IF i > Len(l) THEN [line |-> l, score |-> sc, moved |-> mv]
  ELSE IF l[i] = 0 THEN MergeScan(l, i + 1, sc, mv)
  ELSE LET j == NextNonZero(l, i + 1) IN
       IF CanMerge(l, i, j)
       THEN MergeScan([l EXCEPT ![i] = Doubled(l[i]), ![j] = 0],
                      i + 1, AddScore(sc, l[i]), TRUE)
       ELSE MergeScan(l, i + 1, sc, mv)

\* game.rs:90-91: keep the non-zero cells in order, resize to SIZE with zeros
\* (mutant: the line is cut one cell short of SIZE before the padding)
CompactCutBug(l) ==
  LET nz == SelectSeq(l, LAMBDA x : x # 0)
  IN  IF Len(nz) >= SIZE THEN SubSeq(nz, 1, SIZE - 1) \o <<0>>
      ELSE nz \o [k \in 1..(SIZE - Len(nz)) |-> 0]
\* (mutant: the zeros are padded in front)
CompactBug(l) ==
  LET nz == SelectSeq(l, LAMBDA x : x # 0)
  IN  [k \in 1..(SIZE - Len(nz)) |-> 0] \o nz
Compact(l) ==
  LET nz == SelectSeq(l, LAMBDA x : x # 0)
  IN  IF Len(nz) >= SIZE THEN SubSeq(nz, 1, SIZE)
      ELSE nz \o [k \in 1..(SIZE - Len(nz)) |-> 0]

\* game.rs:69-94  Game2048::merge: the new line, the new score, the flag
\* (mutant: the scan starts at the far end of the line)
mergeFarBug(l, sc) ==
  LET r == MergeScan(SubSeq([k \in 1..Len(l) |-> l[Len(l) + 1 - k]], 1, Len(l)),
                     1, sc, FALSE)
      back == SubSeq([k \in 1..Len(l) |-> r.line[Len(l) + 1 - k]], 1, Len(l))
  IN  [line |-> Compact(back), score |-> r.score, moved |-> r.moved]
merge(l, sc) ==
  LET r == MergeScan(l, 1, sc, FALSE)
  IN  [line |-> Compact(r.line), score |-> r.score, moved |-> r.moved]

\* ------------------------------------------------------------ moves
\* `moved |= self.merge(..)` then `moved |= board[..] != val` for each cell
\* (mutant: only the merge flag is kept)
LineMovedBug(flag, diff) == flag
LineMoved(flag, diff) == flag \/ diff

\* the SIZE values f[1] .. f[SIZE] gathered in a sequence of their own, as
\* collect() and to_vec() gather a line and as the array holds the cells
Collect(f) == SubSeq(f, 1, SIZE)

\* whether line `new` differs from line `old` in some cell
Differs(old, new) == \E k \in Idx : old[k] # new[k]

\* game.rs:99, 101-104  move_up reads column j top first and writes it back
ColOf(b, j) == Collect([i \in Idx |-> b[i][j]])
PutCol(b, j, l) == Collect([i \in Idx |-> [b[i] EXCEPT ![j] = l[i]]])

\* game.rs:96-107  move_up, columns j .. SIZE
RECURSIVE move_up_from(_, _, _, _)
move_up_from(b, sc, mv, j) ==
  IF j > SIZE THEN [board |-> b, score |-> sc, moved |-> mv]
  ELSE LET old == ColOf(b, j)
           r == merge(old, sc)
       IN  move_up_from(PutCol(b, j, r.line), r.score,
                        mv \/ LineMoved(r.moved, Differs(old, r.line)), j + 1)
move_up(b, sc) == move_up_from(b, sc, FALSE, 1)

\* game.rs:112, 114-117  move_down reads column j bottom first and writes
\* it back bottom first
ColRevOf(b, j) == Collect([i \in Idx |-> b[SIZE + 1 - i][j]])
PutColRev(b, j, l) ==
  Collect([i \in Idx |-> [b[i] EXCEPT ![j] = l[SIZE + 1 - i]]])

\* game.rs:109-120  move_down, columns j .. SIZE
RECURSIVE move_down_from(_, _, _, _)
move_down_from(b, sc, mv, j) ==
  IF j > SIZE THEN [board |-> b, score |-> sc, moved |-> mv]
  ELSE LET old == ColRevOf(b, j)
           r == merge(old, sc)
       IN  move_down_from(PutColRev(b, j, r.line), r.score,
                          mv \/ LineMoved(r.moved, Differs(old, r.line)), j + 1)
move_down(b, sc) == move_down_from(b, sc, FALSE, 1)

\* game.rs:125, 127-130  move_left reads row i and writes it back
RowOf(b, i) == Collect(b[i])
PutRow(b, i, l) == [b EXCEPT ![i] = Collect([j \in Idx |-> l[j]])]

\* game.rs:122-133  move_left, rows i .. SIZE
RECURSIVE move_left_from(_, _, _, _)
move_left_from(b, sc, mv, i) ==
  IF i > SIZE THEN [board |-> b, score |-> sc, moved |-> mv]
  ELSE LET old == RowOf(b, i)
           r == merge(old, sc)
       IN  move_left_from(PutRow(b, i, r.line), r.score,
                          mv \/ LineMoved(r.moved, Differs(old, r.line)), i + 1)
move_left(b, sc) == move_left_from(b, sc, FALSE, 1)

\* game.rs:138, 140-143  move_right reads row i right end first and writes
\* it back right end first
RowRevOf(b, i) == Collect([j \in Idx |-> b[i][SIZE + 1 - j]])
\* (mutant: the merged row is written back left end first)
PutRowRevBug(b, i, l) == [b EXCEPT ![i] = Collect([j \in Idx |-> l[j]])]
PutRowRev(b, i, l) ==
  [b EXCEPT ![i] = Collect([j \in Idx |-> l[SIZE + 1 - j]])]

\* game.rs:135-146  move_right, rows i .. SIZE
RECURSIVE move_right_from(_, _, _, _)
move_right_from(b, sc, mv, i) ==
  IF i > SIZE THEN [board |-> b, score |-> sc, moved |-> mv]
  ELSE LET old == RowRevOf(b, i)
           r == merge(old, sc)
       IN  move_right_from(PutRowRev(b, i, r.line), r.score,
                           mv \/ LineMoved(r.moved, Differs(old, r.line)), i + 1)
move_right(b, sc) == move_right_from(b, sc, FALSE, 1)

\* game.rs:154-159  the match on the direction
Shift(b, sc, d) ==
  CASE d = "Up" -> move_up(b, sc)
    [] d = "Down" -> move_down(b, sc)
    [] d = "Left" -> move_left(b, sc)
    [] d = "Right" -> move_right(b, sc)

\* ------------------------------------------------------------ spawn
\* game.rs:52-62  the empty cells in row-major order
AllCells == [n \in 1..(SIZE * SIZE) |-> <<((n - 1) \div SIZE) + 1, ((n - 1) % SIZE) + 1>>]
EmptyCells(b) == SelectSeq(AllCells, LAMBDA c : b[c[1]][c[2]] = 0)

\* game.rs:63-66  spawn_tile with the RNG picking empty[k] and the value v;
\* nothing happens when no cell is empty
\* (mutant: with no empty cell the tile is put in the first cell)
spawn_tileFullBug(b, k, v) ==
  LET empty == EmptyCells(b)
  IN  IF Len(empty) = 0 THEN [b EXCEPT ![1][1] = v]
      ELSE LET c == empty[k] IN [b EXCEPT ![c[1]][c[2]] = v]
\* (mutant: the pick is made among all the cells, empty or not)
spawn_tileBug(b, k, v) ==
  LET c == AllCells[Len(AllCells) + 1 - k]
  IN  [b EXCEPT ![c[1]][c[2]] = v]
spawn_tile(b, k, v) ==
  LET empty == EmptyCells(b)
  IN  IF Len(empty) = 0 THEN b
      ELSE LET c == empty[k] IN [b EXCEPT ![c[1]][c[2]] = v]

\* game.rs:211  [[0; SIZE]; SIZE]
ZeroLine == Collect([j \in Idx |-> 0])
ZeroBoard == Collect([i \in Idx |-> ZeroLine])

\* game.rs:65  the value the RNG gives the new tile
SpawnVals == {2, 4}

\* game.rs:64  empty.choose(): the RNG picks any index of `empty`; the runs
\* below let it pick the first or the last empty cell of board b
SpawnPicks(b) == {1, Max(1, Len(EmptyCells(b)))}

\* the (k, v) the RNG can give a move whose shift returned r: a move that
\* changed nothing does not ask the RNG
SpawnInputs(r) ==
  IF r.moved THEN SpawnPicks(r.board) \X SpawnVals ELSE {<<1, 2>>}

\* ------------------------------------------------------------ history
\* game.rs:43-49  save_state: push, then drop the oldest beyond UNDO_LIMIT
\* (mutant: the eviction is missing)
save_stateBug(h, b, sc) == Append(h, <<b, sc>>)
save_state(h, b, sc) ==
  LET h1 == Append(h, <<b, sc>>)
  IN  IF Len(h1) > UNDO_LIMIT THEN Tail(h1) ELSE h1

\* Vec::pop (game.rs:166, 198): drop the last element, if any
Pop(h) == IF Len(h) = 0 THEN h ELSE SubSeq(h, 1, Len(h) - 1)

\* ------------------------------------------------------------ game over
\* (mutant: the comparison with the cell below is missing)
game_overNoVertical(b) ==
  \A i \in Idx : \A j \in Idx :
    /\ b[i][j] # 0
    /\ ~(j < SIZE /\ b[i][j] = b[i][j + 1])
\* (mutant: the comparison with the cell to the right is missing)
game_overNoHorizontal(b) ==
  \A i \in Idx : \A j \in Idx :
    /\ b[i][j] # 0
    /\ ~(i < SIZE /\ b[i][j] = b[i + 1][j])

\* (mutant: the test for an empty cell is missing)
game_overNoEmpty(b) ==
  \A i \in Idx : \A j \in Idx :
    /\ ~(j < SIZE /\ b[i][j] = b[i][j + 1])
    /\ ~(i < SIZE /\ b[i][j] = b[i + 1][j])

\* game.rs:173-185  the scan of the cells in row-major order from the n-th
\* cell on, with its three early returns
RECURSIVE game_over_from(_, _)
game_over_from(b, n) ==
  IF n > Len(AllCells) THEN TRUE
  ELSE LET i == AllCells[n][1]
           j == AllCells[n][2]
       IN  IF b[i][j] = 0 THEN FALSE
           ELSE IF j < SIZE /\ b[i][j] = b[i][j + 1] THEN FALSE
           ELSE IF i < SIZE /\ b[i][j] = b[i + 1][j] THEN FALSE
           ELSE game_over_from(b, n + 1)

\* game.rs:171-187  GameEngine::game_over
game_over(b) == game_over_from(b, 1)

\* ------------------------------------------------------------ the engine
\* game.rs:150-169  GameEngine::move_in_direction on (h, b, sc), where r is
\* what the match on the direction returned (Shift, game.rs:154-159) and the
\* RNG picks empty[k] and the value v: the new state, the returned flag and
\* the board as it was between the shift and the spawn
\* (mutant: save_state is called after the shift and the spawn, so the
\* snapshot holds the board the move made)
move_in_directionLateBug(h, b, sc, r, k, v) ==
  IF r.moved
  THEN [board |-> spawn_tile(r.board, k, v), score |-> r.score,
        hist |-> save_state(h, spawn_tile(r.board, k, v), r.score),
        ret |-> TRUE, shifted |-> r.board]
  ELSE [board |-> r.board, score |-> r.score,
        hist |-> h, ret |-> FALSE, shifted |-> r.board]
\* (mutant: the snapshot of a move that changed nothing is kept)
move_in_directionBug(h, b, sc, r, k, v) ==
  LET h1 == save_state(h, b, sc)
  IN  IF r.moved
      THEN [board |-> spawn_tile(r.board, k, v), score |-> r.score,
            hist |-> h1, ret |-> TRUE, shifted |-> r.board]
      ELSE [board |-> r.board, score |-> r.score,
            hist |-> h1, ret |-> FALSE, shifted |-> r.board]
move_in_direction(h, b, sc, r, k, v) ==
  LET h1 == save_state(h, b, sc)
  IN  IF r.moved
      THEN [board |-> spawn_tile(r.board, k, v), score |-> r.score,
            hist |-> h1, ret |-> TRUE, shifted |-> r.board]
      ELSE [board |-> r.board, score |-> r.score,
            hist |-> Pop(h1), ret |-> FALSE, shifted |-> r.board]

\* game.rs:197-205  GameEngine::undo on (h, b, sc)
\* (mutant: the oldest snapshot is restored instead of the newest)
undoBug(h, b, sc) ==
  IF Len(h) > 0
  THEN [board |-> h[1][1], score |-> h[1][2], hist |-> Pop(h), ret |-> TRUE]
  ELSE [board |-> b, score |-> sc, hist |-> h, ret |-> FALSE]
\* (mutant: the outcome of the pop is not looked at, true is returned always)
undoEmptyBug(h, b, sc) ==
  IF Len(h) > 0
  THEN [board |-> h[Len(h)][1], score |-> h[Len(h)][2], hist |-> Pop(h), ret |-> TRUE]
  ELSE [board |-> b, score |-> sc, hist |-> h, ret |-> TRUE]
undo(h, b, sc) ==
  IF Len(h) > 0
  THEN [board |-> h[Len(h)][1], score |-> h[Len(h)][2], hist |-> Pop(h), ret |-> TRUE]
  ELSE [board |-> b, score |-> sc, hist |-> h, ret |-> FALSE]

\* ------------------------------------------------------------ ghost state
NoRun == [has |-> FALSE, base |-> <<>>, after |-> <<>>, noops |-> 0, undone |-> FALSE]

\* ------------------------------------------------------------ actions
\* one call of move_in_direction(d): r is its shift, empty[k] := v its spawn
MoveIn(d, r, k, v) ==
  \E m \in {move_in_direction(previous_states, board, score, r, k, v)} :
  \E um \in {unmixed /\ op # "undo"} :
      /\ op' = "move"
      /\ dir' = d
      /\ preBoard' = board
      /\ preScore' = score
      /\ preHist' = previous_states
      /\ board' = m.board
      /\ score' = m.score
      /\ previous_states' = m.hist
      /\ ret' = m.ret
      /\ shifted' = m.shifted
      /\ unmixed' = um
      /\ nundo' = 0
      /\ UNCHANGED <<line, preLine>>
      /\ IF m.ret
         THEN /\ depth' = depth + 1
              /\ run' = [has |-> TRUE, base |-> <<board, score>>,
                         after |-> m.board, noops |-> 0, undone |-> FALSE]
              /\ pres' = IF um
                         THEN Append(pres, [pre |-> <<board, score>>, noops |-> 0])
                         ELSE <<>>
         ELSE /\ depth' = depth
              /\ run' = IF run.has /\ ~run.undone
                        THEN [run EXCEPT !.noops = Min(@ + 1, MaxNoops)]
                        ELSE NoRun
              /\ pres' = IF ~um THEN <<>>
                         ELSE IF Len(pres) = 0 THEN pres
                         ELSE [pres EXCEPT ![Len(pres)].noops = Min(@ + 1, MaxNoops)]

\* a move call of the player, any direction, any spawn the bounds allow
Move ==
  \E d \in Dirs : \E r \in {Shift(board, score, d)} :
    /\ r.moved => depth < MaxMoves
    /\ \E kv \in SpawnInputs(r) : MoveIn(d, r, kv[1], kv[2])
    /\ UNCHANGED <<appvars, mainvars>>

\* one call of undo()
UndoCall ==
  \E u \in {undo(previous_states, board, score)} :
      /\ op' = "undo"
      /\ dir' = "none"
      /\ preBoard' = board
      /\ preScore' = score
      /\ preHist' = previous_states
      /\ board' = u.board
      /\ score' = u.score
      /\ previous_states' = u.hist
      /\ ret' = u.ret
      /\ shifted' = u.board
      /\ depth' = IF u.ret THEN Max(depth - 1, 0) ELSE depth
      /\ run' = IF run.has /\ ~run.undone THEN [run EXCEPT !.undone = TRUE] ELSE NoRun
      /\ nundo' = IF unmixed THEN Min(nundo + 1, MaxUndoRun) ELSE 0
      /\ UNCHANGED <<line, preLine, pres, unmixed>>

\* an undo call of the player
Undo == UndoCall /\ UNCHANGED <<appvars, mainvars>>

\* ------------------------------------------------------------ Spec
\* game.rs:208-219  Game2048::default(): two spawns on the empty board
\* (mutant: spawn_tile is called once)
DefaultBoardsBug ==
  { spawn_tile(ZeroBoard, k1, v1) : k1 \in SpawnPicks(ZeroBoard), v1 \in SpawnVals }
DefaultBoards ==
  UNION { { spawn_tile(b1, k2, v2) : k2 \in SpawnPicks(b1), v2 \in SpawnVals } :
            b1 \in { spawn_tile(ZeroBoard, k1, v1) :
                       k1 \in SpawnPicks(ZeroBoard), v1 \in SpawnVals } }

InitWith(boards, scores, log) ==
  /\ board \in boards
  /\ score \in scores
  /\ previous_states = <<>>
  /\ line = <<>>
  /\ op = "init"
  /\ dir = "none"
  /\ ret = FALSE
  /\ preBoard = board
  /\ preScore = score
  /\ preHist = <<>>
  /\ preLine = <<>>
  /\ shifted = board
  /\ depth = 0
  /\ run = NoRun
  /\ pres = <<>>
  /\ nundo = 0
  /\ unmixed = log
  /\ mode = "none"
  /\ key = "none"
  /\ preMode = "none"
  /\ prevOp = "none"
  /\ mainBoard = ZeroBoard
  /\ mainScore = 0
  /\ mainRet = FALSE

Init == InitWith(DefaultBoards, {0}, FALSE)
Next == Move \/ Undo
Spec == Init /\ [][Next]_vars

\* ------------------------------------------------------------ SpecCap
\* Long runs, to fill the history past UNDO_LIMIT: the player moves Left or
\* Right and the RNG always puts a 2 in the first empty cell.
CapDirs == {"Left", "Right"}
CapInputs(r) == {<<1, 2>>}
CapBoards == {spawn_tile(spawn_tile(ZeroBoard, 1, 2), 1, 2)}

CapMove ==
  \E d \in CapDirs : \E r \in {Shift(board, score, d)} :
    /\ r.moved => depth < MaxCapMoves
    /\ \E kv \in CapInputs(r) : MoveIn(d, r, kv[1], kv[2])
    /\ UNCHANGED <<appvars, mainvars>>

InitCap == InitWith(CapBoards, {0}, TRUE)
NextCap == CapMove \/ Undo
SpecCap == InitCap /\ [][NextCap]_vars

\* ------------------------------------------------------------ SpecApp
\* App::run (app.rs:50-99) driving the engine, one key event at a time.
\* A key event is named by what its arms of the two matches tell apart:
\* "q" is q or Esc, a direction is its arrow or its letter (a, d, w, s),
\* "u" is u or z, "r" is r, "other" is any other key.
Keys == {"q", "u", "r", "other"} \cup Dirs

\* app.rs:56-74  the match of the outer loop
main_key(k) ==
  CASE k = "q" -> "quit"
    [] k \in Dirs -> "move"
    [] k = "u" -> "undo"
    [] OTHER -> "none"

\* app.rs:83-91  the match of the loop of the game-over screen
\* (mutant: any key but q restarts the game)
over_keyBug(k) == IF k = "q" THEN "quit" ELSE "restart"
over_key(k) ==
  CASE k = "q" -> "quit"
    [] k = "r" -> "restart"
    [] OTHER -> "none"

\* app.rs:87  self.game = G::default(): the games that can replace the game
\* (h, b, sc)
\* (mutant: the board and the score are made anew, the history is kept)
restartKeepBug(h, b, sc) ==
  { [board |-> nb, score |-> 0, hist |-> h] : nb \in DefaultBoards }
restart(h, b, sc) ==
  { [board |-> nb, score |-> 0, hist |-> <<>>] : nb \in DefaultBoards }

\* app.rs:76  the mode after a key event of the outer loop, on board b
after_key(b) == IF game_over(b) THEN "over" ELSE "main"

\* game.rs:63-65  what the RNG gives a move under App::run whose shift
\* returned r: the first empty cell, 2 or 4
AppInputs(r) == IF r.moved THEN {1} \X SpawnVals ELSE {<<1, 2>>}

\* app.rs:57  q or Esc in the outer loop: run returns
MainQuit ==
  /\ mode = "main"
  /\ \E k \in Keys :
       /\ main_key(k) = "quit"
       /\ key' = k
  /\ preMode' = mode
  /\ mode' = "quit"
  /\ UNCHANGED <<board, score, previous_states, line, op, dir, ret, preBoard,
                 preScore, preHist, preLine, shifted, depth, run, pres, nundo,
                 unmixed, prevOp, mainBoard, mainScore, mainRet>>

\* app.rs:58-69, 76  a direction key in the outer loop
MainMove ==
  /\ mode = "main"
  /\ \E k \in Keys :
       /\ main_key(k) = "move"
       /\ \E r \in {Shift(board, score, k)} :
            /\ r.moved => depth < MaxAppMoves
            /\ \E kv \in AppInputs(r) : MoveIn(k, r, kv[1], kv[2])
       /\ key' = k
  /\ preMode' = mode
  /\ prevOp' = op
  /\ mode' = after_key(board')
  /\ UNCHANGED mainvars

\* app.rs:70-72, 76  u or z in the outer loop
MainUndo ==
  /\ mode = "main"
  /\ \E k \in Keys :
       /\ main_key(k) = "undo"
       /\ key' = k
  /\ UndoCall
  /\ preMode' = mode
  /\ prevOp' = op
  /\ mode' = after_key(board')
  /\ UNCHANGED mainvars

\* app.rs:73, 76  any other key in the outer loop: no call but game_over()
MainOther ==
  /\ mode = "main"
  /\ \E k \in Keys :
       /\ main_key(k) = "none"
       /\ key' = k
  /\ preMode' = mode
  /\ mode' = after_key(board)
  /\ UNCHANGED <<board, score, previous_states, line, op, dir, ret, preBoard,
                 preScore, preHist, preLine, shifted, depth, run, pres, nundo,
                 unmixed, prevOp, mainBoard, mainScore, mainRet>>

\* app.rs:84  q or Esc on the game-over screen: run returns
OverQuit ==
  /\ mode = "over"
  /\ \E k \in Keys :
       /\ over_key(k) = "quit"
       /\ key' = k
  /\ preMode' = mode
  /\ mode' = "quit"
  /\ UNCHANGED <<board, score, previous_states, line, op, dir, ret, preBoard,
                 preScore, preHist, preLine, shifted, depth, run, pres, nundo,
                 unmixed, prevOp, mainBoard, mainScore, mainRet>>

\* app.rs:85-89  r on the game-over screen: a new game, back to the outer loop
OverRestart ==
  /\ mode = "over"
  /\ \E k \in Keys :
       /\ over_key(k) = "restart"
       /\ key' = k
  /\ \E g \in restart(previous_states, board, score) :
       /\ board' = g.board
       /\ score' = g.score
       /\ previous_states' = g.hist
       /\ shifted' = g.board
  /\ op' = "restart"
  /\ dir' = "none"
  /\ ret' = FALSE
  /\ preBoard' = board
  /\ preScore' = score
  /\ preHist' = previous_states
  /\ depth' = 0
  /\ run' = NoRun
  /\ preMode' = mode
  /\ prevOp' = op
  /\ mode' = "main"
  /\ UNCHANGED <<line, preLine, pres, nundo, unmixed, mainBoard, mainScore,
                 mainRet>>

\* app.rs:90  any other key on the game-over screen: nothing
OverOther ==
  /\ mode = "over"
  /\ \E k \in Keys :
       /\ over_key(k) = "none"
       /\ key' = k
  /\ preMode' = mode
  /\ UNCHANGED <<board, score, previous_states, line, op, dir, ret, preBoard,
                 preScore, preHist, preLine, shifted, depth, run, pres, nundo,
                 unmixed, prevOp, mode, mainBoard, mainScore,
                 mainRet>>

\* App::new (app.rs:37-47) is handed its game.  It is a new game, or a game
\* that was played before: the play below, from the new game with 2 in the
\* first two cells, merges one pair of tiles and leaves a board one move away
\* from a full board with no equal neighbours.  Each entry is a direction, the index of the empty cell
\* the RNG picks and the value it gives.
PlayScript ==
  << <<"Down", 1, 4>>, <<"Up", 1, 4>>, <<"Right", 12, 2>>, <<"Left", 11, 4>>,
     <<"Left", 10, 2>>, <<"Right", 9, 4>>, <<"Left", 8, 4>>, <<"Right", 1, 2>>,
     <<"Down", 1, 4>>, <<"Right", 1, 4>>, <<"Down", 1, 2>>, <<"Right", 1, 4>>,
     <<"Right", 1, 2>>, <<"Left", 1, 4>> >>
NewGame(b) == [board |-> b, score |-> 0, hist |-> <<>>]

\* the games (one) that the call c = <<direction, pick, value>> makes of the
\* games gs
PlayedOn(gs, c) ==
  UNION { { [board |-> m.board, score |-> m.score, hist |-> m.hist] :
              m \in { move_in_direction(p.hist, p.board, p.score, r, c[2], c[3]) :
                        r \in {Shift(p.board, p.score, c[1])} } } :
          p \in gs }

\* the game g after the first n calls of PlayScript
RECURSIVE PlayedSet(_, _)
PlayedSet(g, n) ==
  IF n = 0 THEN {g} ELSE PlayedOn(PlayedSet(g, n - 1), PlayScript[n])
Played(g, n) == CHOOSE p \in PlayedSet(g, n) : TRUE
LateGame ==
  Played(NewGame(spawn_tile(spawn_tile(ZeroBoard, 1, 2), 1, 2)), Len(PlayScript))
AppGames == { NewGame(b) : b \in DefaultBoards } \cup {LateGame}

InitApp ==
  /\ \E g \in AppGames :
       /\ board = g.board
       /\ score = g.score
       /\ previous_states = g.hist
       /\ preBoard = g.board
       /\ preScore = g.score
       /\ preHist = g.hist
       /\ shifted = g.board
  /\ line = <<>>
  /\ preLine = <<>>
  /\ op = "init"
  /\ dir = "none"
  /\ ret = FALSE
  /\ depth = 0
  /\ run = NoRun
  /\ pres = <<>>
  /\ nundo = 0
  /\ unmixed = FALSE
  /\ mode = "main"
  /\ key = "none"
  /\ preMode = "main"
  /\ prevOp = "none"
  /\ mainBoard = ZeroBoard
  /\ mainScore = 0
  /\ mainRet = FALSE

NextApp ==
  \/ MainQuit
  \/ MainMove
  \/ MainUndo
  \/ MainOther
  \/ OverQuit
  \/ OverRestart
  \/ OverOther
SpecApp == InitApp /\ [][NextApp]_vars

\* ------------------------------------------------------------ SpecLate
\* The engine driven by hand, with no App in between, from the played game
\* LateGame: the calls go on after the board is dead.
LateMove ==
  \E d \in Dirs : \E r \in {Shift(board, score, d)} :
    /\ r.moved => depth < MaxLateMoves
    /\ \E kv \in SpawnInputs(r) : MoveIn(d, r, kv[1], kv[2])
    /\ UNCHANGED <<appvars, mainvars>>

InitLate ==
  /\ board = LateGame.board
  /\ score = LateGame.score
  /\ previous_states = LateGame.hist
  /\ preBoard = LateGame.board
  /\ preScore = LateGame.score
  /\ preHist = LateGame.hist
  /\ shifted = LateGame.board
  /\ line = <<>>
  /\ preLine = <<>>
  /\ op = "init"
  /\ dir = "none"
  /\ ret = FALSE
  /\ depth = 0
  /\ run = NoRun
  /\ pres = <<>>
  /\ nundo = 0
  /\ unmixed = FALSE
  /\ mode = "none"
  /\ key = "none"
  /\ preMode = "none"
  /\ prevOp = "none"
  /\ mainBoard = ZeroBoard
  /\ mainScore = 0
  /\ mainRet = FALSE

NextLate == LateMove \/ Undo
SpecLate == InitLate /\ [][NextLate]_vars

\* ------------------------------------------------------------ SpecBoard
\* One move on a board set by hand, as the tests of game.rs do
\* (game.board = [...] after Game2048::default()).
\* game.rs:236, 246-251, 266, 276, 286: the boards of the tests
TestLeft == <<<<2, 2, 0, 0>>, <<0, 0, 0, 0>>, <<0, 0, 0, 0>>, <<0, 0, 0, 0>>>>
TestRight == <<<<0, 0, 16, 64>>, <<4, 0, 4, 0>>, <<16, 0, 0, 16>>, <<2048, 0, 0, 16>>>>
TestUp == <<<<2, 0, 0, 0>>, <<2, 0, 0, 0>>, <<4, 0, 0, 0>>, <<8, 0, 0, 0>>>>
TestDown == <<<<0, 0, 0, 0>>, <<2, 0, 0, 0>>, <<2, 0, 0, 0>>, <<4, 0, 0, 0>>>>
TestOver == <<<<2, 8, 4, 16>>, <<8, 2, 16, 4>>, <<32, 4, 2, 32>>, <<2, 16, 32, 2>>>>
TestBoards == {TestLeft, TestRight, TestUp, TestDown, TestOver}

\* the rows the other boards are built from
RowChoices ==
  << <<2, 2, 0, 0>>, <<2, 0, 2, 2>>, <<2, 4, 2, 4>>, <<4, 2, 4, 2>>,
     <<0, 0, 0, 0>>, <<0, 4, 4, 8>>, <<2, 2, 2, 2>>, <<8, 0, 0, 8>> >>
RowSet == { RowChoices[n] : n \in 1..Min(NumRowChoices, Len(RowChoices)) }
\* two more boards set by hand: rows, and the same lines as columns, holding
\* a pair before a bigger tile, four equal tiles and three equal tiles
MergeRows == <<<<2, 2, 4, 0>>, <<2, 2, 2, 2>>, <<2, 2, 2, 0>>, <<0, 2, 2, 2>>>>
MergeCols == <<<<2, 2, 2, 0>>, <<2, 2, 2, 2>>, <<4, 2, 2, 2>>, <<0, 2, 0, 2>>>>
MergeBoards == {MergeRows, MergeCols}
InputBoards == TestBoards \cup MergeBoards \cup [Idx -> RowSet]

BoardMove ==
  /\ op = "init"
  /\ \E d \in Dirs : \E r \in {Shift(board, score, d)} :
       \E kv \in SpawnInputs(r) : MoveIn(d, r, kv[1], kv[2])
  /\ UNCHANGED <<appvars, mainvars>>

\* the score the board is given with
InputScores == {0, 10}
InitBoard == InitWith(InputBoards, InputScores, FALSE)
NextBoard == BoardMove
SpecBoard == InitBoard /\ [][NextBoard]_vars

\* ------------------------------------------------------------ SpecOver
\* One call of game_over() on a board set by hand, as test_game_over does.
\* the rows the boards are built from: full rows with and without an equal
\* pair, and a row with an empty cell
OverRowChoices ==
  << <<2, 4, 2, 4>>, <<4, 2, 4, 2>>, <<8, 8, 4, 2>>, <<2, 4, 2, 0>>,
     <<8, 4, 2, 4>>, <<2, 2, 4, 8>> >>
OverRowSet == { OverRowChoices[n] : n \in 1..Min(NumOverRows, Len(OverRowChoices)) }
OverBoards == TestBoards \cup [Idx -> OverRowSet]

OverCall ==
  /\ op = "init"
  /\ op' = "game_over"
  /\ ret' = game_over(board)
  /\ preBoard' = board
  /\ preScore' = score
  /\ preHist' = previous_states
  /\ UNCHANGED <<board, score, previous_states, line, dir, preLine, shifted,
                 depth, run, pres, nundo, unmixed>>
  /\ UNCHANGED <<appvars, mainvars>>

InitOver == InitWith(OverBoards, InputScores, FALSE)
NextOver == OverCall
SpecOver == InitOver /\ [][NextOver]_vars

\* ------------------------------------------------------------ SpecSpawn
\* One call of spawn_tile() on a board set by hand, full or not; the RNG
\* picks any of the empty cells and 2 or 4.
SpawnCall ==
  /\ op = "init"
  /\ \E k \in 1..Max(1, Len(EmptyCells(board))) : \E v \in SpawnVals :
       board' = spawn_tile(board, k, v)
  /\ op' = "spawn"
  /\ preBoard' = board
  /\ preScore' = score
  /\ preHist' = previous_states
  /\ UNCHANGED <<score, previous_states, line, dir, ret, preLine, shifted,
                 depth, run, pres, nundo, unmixed>>
  /\ UNCHANGED <<appvars, mainvars>>

InitSpawn == InitWith(OverBoards, InputScores, FALSE)
NextSpawn == SpawnCall
SpecSpawn == InitSpawn /\ [][NextSpawn]_vars

\* ------------------------------------------------------------ SpecLine
\* One call of merge() on a line of SIZE cells, each 0 or 2^1 .. 2^MaxExp.
RECURSIVE Pow2(_)
Pow2(e) == IF e = 0 THEN 1 ELSE 2 * Pow2(e - 1)
Tiles == {0} \cup { Pow2(e) : e \in 1..MaxExp }
LineScores == {0, 10}

InitLine ==
  /\ line \in [Idx -> Tiles]
  /\ score \in LineScores
  /\ board = ZeroBoard
  /\ previous_states = <<>>
  /\ op = "init"
  /\ dir = "none"
  /\ ret = FALSE
  /\ preBoard = ZeroBoard
  /\ preScore = score
  /\ preHist = <<>>
  /\ preLine = line
  /\ shifted = ZeroBoard
  /\ depth = 0
  /\ run = NoRun
  /\ pres = <<>>
  /\ nundo = 0
  /\ unmixed = FALSE
  /\ mode = "none"
  /\ key = "none"
  /\ preMode = "none"
  /\ prevOp = "none"
  /\ mainBoard = ZeroBoard
  /\ mainScore = 0
  /\ mainRet = FALSE

MergeLine ==
  /\ op = "init"
  /\ \E m \in {merge(line, score)} :
       /\ line' = m.line
       /\ score' = m.score
       /\ ret' = m.moved
  /\ op' = "merge"
  /\ preLine' = line
  /\ preScore' = score
  /\ UNCHANGED <<board, previous_states, dir, preBoard, preHist, shifted,
                 depth, run, pres, nundo, unmixed>>
  /\ UNCHANGED <<appvars, mainvars>>

NextLine == MergeLine
SpecLine == InitLine /\ [][NextLine]_vars

\* ------------------------------------------------------------ main.rs
\* The engine of src/src/main.rs, which has no undo history: its own merge,
\* moves, spawn and game-over scan, each from its own code.
\* main.rs:158-161  the next index after i whose cell is not zero, or Len+1
RECURSIVE MainNextNonZero(_, _)
MainNextNonZero(l, j) ==
  IF j <= Len(l) /\ l[j] = 0 THEN MainNextNonZero(l, j + 1) ELSE j

\* main.rs:152-169  the while loop over i of merge
RECURSIVE MainMergeScan(_, _, _, _)
MainMergeScan(l, i, sc, mv) ==
  IF i > Len(l) THEN [line |-> l, score |-> sc, moved |-> mv]
  ELSE IF l[i] = 0 THEN MainMergeScan(l, i + 1, sc, mv)
  ELSE LET j == MainNextNonZero(l, i + 1) IN
       IF j <= Len(l) /\ l[i] = l[j]
       THEN MainMergeScan([l EXCEPT ![i] = l[i] * 2, ![j] = 0],
                          i + 1, sc + l[i], TRUE)
       ELSE MainMergeScan(l, i + 1, sc, mv)

\* main.rs:171-172  the non-zero cells in order, resized to SIZE with zeros
MainCompact(l) ==
  LET nz == SelectSeq(l, LAMBDA x : x # 0)
  IN  IF Len(nz) >= SIZE THEN SubSeq(nz, 1, SIZE)
      ELSE nz \o [k \in 1..(SIZE - Len(nz)) |-> 0]

\* main.rs:150-175  merge
main_merge(l, sc) ==
  LET r == MainMergeScan(l, 1, sc, FALSE)
  IN  [line |-> MainCompact(r.line), score |-> r.score, moved |-> r.moved]

\* main.rs:101-112  move_up, columns j .. SIZE: column j read top first,
\* merged, compared cell by cell and written back
RECURSIVE main_move_up_from(_, _, _, _)
main_move_up_from(b, sc, mv, j) ==
  IF j > SIZE THEN [board |-> b, score |-> sc, moved |-> mv]
  ELSE LET col == Collect([i \in Idx |-> b[i][j]])
           r == main_merge(col, sc)
       IN  main_move_up_from(
             Collect([i \in Idx |-> [b[i] EXCEPT ![j] = r.line[i]]]), r.score,
             mv \/ r.moved \/ (\E i \in Idx : b[i][j] # r.line[i]), j + 1)
main_move_up(b, sc) == main_move_up_from(b, sc, FALSE, 1)

\* main.rs:113-124  move_down, columns j .. SIZE: column j read bottom first
RECURSIVE main_move_down_from(_, _, _, _)
main_move_down_from(b, sc, mv, j) ==
  IF j > SIZE THEN [board |-> b, score |-> sc, moved |-> mv]
  ELSE LET col == Collect([i \in Idx |-> b[SIZE + 1 - i][j]])
           r == main_merge(col, sc)
       IN  main_move_down_from(
             Collect([i \in Idx |-> [b[i] EXCEPT ![j] = r.line[SIZE + 1 - i]]]),
             r.score,
             mv \/ r.moved \/ (\E i \in Idx : b[SIZE + 1 - i][j] # r.line[i]),
             j + 1)
main_move_down(b, sc) == main_move_down_from(b, sc, FALSE, 1)

\* main.rs:125-136  move_left, rows i .. SIZE
RECURSIVE main_move_left_from(_, _, _, _)
main_move_left_from(b, sc, mv, i) ==
  IF i > SIZE THEN [board |-> b, score |-> sc, moved |-> mv]
  ELSE LET row == Collect(b[i])
           r == main_merge(row, sc)
       IN  main_move_left_from(
             [b EXCEPT ![i] = Collect([j \in Idx |-> r.line[j]])], r.score,
             mv \/ r.moved \/ (\E j \in Idx : b[i][j] # r.line[j]), i + 1)
main_move_left(b, sc) == main_move_left_from(b, sc, FALSE, 1)

\* main.rs:137-148  move_right, rows i .. SIZE: row i read right end first
RECURSIVE main_move_right_from(_, _, _, _)
main_move_right_from(b, sc, mv, i) ==
  IF i > SIZE THEN [board |-> b, score |-> sc, moved |-> mv]
  ELSE LET row == Collect([j \in Idx |-> b[i][SIZE + 1 - j]])
           r == main_merge(row, sc)
       IN  main_move_right_from(
             [b EXCEPT ![i] = Collect([j \in Idx |-> r.line[SIZE + 1 - j]])],
             r.score,
             mv \/ r.moved \/ (\E j \in Idx : b[i][SIZE + 1 - j] # r.line[j]),
             i + 1)
main_move_right(b, sc) == main_move_right_from(b, sc, FALSE, 1)

\* main.rs:53-66  spawn_tile with the RNG picking empty[k] and the value v;
\* choose() on an empty list gives None and nothing happens
main_spawn_tile(b, k, v) ==
  LET empty == SelectSeq(AllCells, LAMBDA c : b[c[1]][c[2]] = 0)
  IN  IF Len(empty) = 0 THEN b
      ELSE [b EXCEPT ![empty[k][1]][empty[k][2]] = v]

\* main.rs:69-81  move_in_direction on (b, sc) in direction d, the RNG
\* picking empty[k] and the value v
\* (mutant: the tile is spawned whether the board changed or not)
main_move_in_directionBug(b, sc, d, k, v) ==
  LET r == CASE d = "Up" -> main_move_up(b, sc)
             [] d = "Down" -> main_move_down(b, sc)
             [] d = "Left" -> main_move_left(b, sc)
             [] d = "Right" -> main_move_right(b, sc)
  IN  [board |-> main_spawn_tile(r.board, k, v), score |-> r.score, ret |-> r.moved]
main_move_in_direction(b, sc, d, k, v) ==
  LET r == CASE d = "Up" -> main_move_up(b, sc)
             [] d = "Down" -> main_move_down(b, sc)
             [] d = "Left" -> main_move_left(b, sc)
             [] d = "Right" -> main_move_right(b, sc)
  IN  IF r.moved
      THEN [board |-> main_spawn_tile(r.board, k, v), score |-> r.score, ret |-> TRUE]
      ELSE [board |-> r.board, score |-> r.score, ret |-> FALSE]

\* main.rs:83-99  game_over: the scan from the n-th cell on
RECURSIVE main_game_over_from(_, _)
main_game_over_from(b, n) ==
  IF n > SIZE * SIZE THEN TRUE
  ELSE LET i == ((n - 1) \div SIZE) + 1
           j == ((n - 1) % SIZE) + 1
       IN  IF b[i][j] = 0 THEN FALSE
           ELSE IF j < SIZE /\ b[i][j] = b[i][j + 1] THEN FALSE
           ELSE IF i < SIZE /\ b[i][j] = b[i + 1][j] THEN FALSE
           ELSE main_game_over_from(b, n + 1)
main_game_over(b) == main_game_over_from(b, 1)

\* ------------------------------------------------------------ SpecPair
\* The two engines side by side: both start from the same board and score,
\* and every move call is made on both, in the same direction and with the
\* same outcome of the RNG.  No undo is called.
PairBoards == DefaultBoards \cup TestBoards \cup MergeBoards \cup {LateGame.board}

PairMove ==
  /\ \E d \in Dirs : \E r \in {Shift(board, score, d)} :
       /\ r.moved => depth < MaxPairMoves
       /\ \E kv \in SpawnInputs(r) :
            /\ MoveIn(d, r, kv[1], kv[2])
            /\ \E m \in {main_move_in_direction(mainBoard, mainScore, d, kv[1], kv[2])} :
                 /\ mainBoard' = m.board
                 /\ mainScore' = m.score
                 /\ mainRet' = m.ret
  /\ UNCHANGED appvars

InitPair ==
  /\ board \in PairBoards
  /\ score \in InputScores
  /\ previous_states = <<>>
  /\ line = <<>>
  /\ op = "init"
  /\ dir = "none"
  /\ ret = FALSE
  /\ preBoard = board
  /\ preScore = score
  /\ preHist = <<>>
  /\ preLine = <<>>
  /\ shifted = board
  /\ depth = 0
  /\ run = NoRun
  /\ pres = <<>>
  /\ nundo = 0
  /\ unmixed = FALSE
  /\ mode = "none"
  /\ key = "none"
  /\ preMode = "none"
  /\ prevOp = "none"
  /\ mainBoard = board
  /\ mainScore = score
  /\ mainRet = FALSE

NextPair == PairMove
SpecPair == InitPair /\ [][NextPair]_vars

\* ------------------------------------------------------------ SpecHigh
\* One move on a board set by hand that holds the largest tiles a game can
\* hold.  A game makes a tile only by doubling one of two equal tiles, so it
\* holds few large tiles at a time: counted in units of 2^k, the tiles of
\* 2^k and more never weigh 2^(SIZE*SIZE+2-k) or more together.  The boards
\* below are the boards built from the chosen rows that keep to this.
TopExp == SIZE * SIZE + 1
\* the sum of the cells of board b that hold v or more, cells n .. SIZE*SIZE
RECURSIVE SumAtLeastFrom(_, _, _)
SumAtLeastFrom(b, v, n) ==
  IF n > Len(AllCells) THEN 0
  ELSE (IF b[AllCells[n][1]][AllCells[n][2]] >= v
        THEN b[AllCells[n][1]][AllCells[n][2]] ELSE 0)
       + SumAtLeastFrom(b, v, n + 1)
SumAtLeast(b, v) == SumAtLeastFrom(b, v, 1)
LevelInv(b) ==
  \A k \in 1..(TopExp + 1) :
    SumAtLeast(b, Pow2(k)) <= Pow2(TopExp + 1) - Pow2(k)

HighRowChoices ==
  << <<131072, 65536, 32768, 16384>>, <<65536, 32768, 16384, 8192>>,
     <<512, 1024, 2048, 4096>>, <<4, 4, 8, 16>>,
     <<256, 128, 64, 32>>, <<65536, 65536, 0, 0>> >>
HighRowSet == { HighRowChoices[n] : n \in 1..Min(NumHighRows, Len(HighRowChoices)) }
HighBoards == { b \in [Idx -> HighRowSet] : LevelInv(b) }

InitHigh == InitWith(HighBoards, {0}, FALSE)
NextHigh == BoardMove
SpecHigh == InitHigh /\ [][NextHigh]_vars

\* ============================================================ the claims
Cells == Idx \X Idx
NonZero(l) == SelectSeq(l, LAMBDA x : x # 0)
PadTo(t) == t \o [k \in 1..(SIZE - Len(t)) |-> 0]

\* The merge as the specification words it, on the non-zero cells in order:
\* two equal neighbours become one tile of twice the value and score the
\* value once; the tile so made is not looked at again.
RECURSIVE PairUp(_)
PairUp(t) ==
  IF Len(t) < 2 THEN [line |-> t, gain |-> 0]
  ELSE IF t[1] = t[2]
       THEN LET rest == PairUp(SubSeq(t, 3, Len(t)))
            IN  [line |-> <<2 * t[1]>> \o rest.line, gain |-> t[1] + rest.gain]
       ELSE LET rest == PairUp(Tail(t))
            IN  [line |-> <<t[1]>> \o rest.line, gain |-> rest.gain]
MergeRef(l) ==
  LET p == PairUp(NonZero(l)) IN [line |-> PadTo(p.line), gain |-> p.gain]

\* C1: merge() turns every line of SIZE cells into the line the scan from
\* index 0 describes (equal non-zero neighbours merged once, zeros removed,
\* order kept, zeros padded behind) and adds each merged pair's value to the
\* score; [2,2,0,0] gives [4,0,0,0] and [2,0,2,2] gives [4,2,0,0], each +2.
C1_LineMerge ==
  op = "merge" =>
    /\ Len(line) = SIZE
    /\ line = MergeRef(preLine).line
    /\ score = preScore + MergeRef(preLine).gain
    /\ ret = (MergeRef(preLine).gain > 0)
    /\ preLine = <<2, 2, 0, 0>> => line = <<4, 0, 0, 0>> /\ score = preScore + 2
    /\ preLine = <<2, 0, 2, 2>> => line = <<4, 2, 0, 0>> /\ score = preScore + 2
C1_Witness ==
  op = "merge" /\ preLine = <<2, 0, 2, 2>> /\ line = <<4, 2, 0, 0>> /\ preScore = 10

\* C2: move_in_direction returns true exactly when the board right after the
\* shift-and-merge differs from the pre-move board, and a merge (the score
\* went up) never leaves the board as it was.
C2_ChangedIffDiffers ==
  op = "move" =>
    /\ ret <=> (shifted # preBoard)
    /\ score # preScore => shifted # preBoard
C2_Witness ==
  op = "move" /\ ret /\ score = preScore /\ shifted # preBoard

\* C3: after a move that returned true the board is the shifted board but for
\* exactly one cell, which was empty after the shift and now holds 2 or 4;
\* the board of test_move_right moved Right shifts to the expected board.
TestRightShifted ==
  <<<<0, 0, 16, 64>>, <<0, 0, 0, 8>>, <<0, 0, 0, 32>>, <<0, 0, 2048, 16>>>>
C3_OneSpawn ==
  /\ (op = "move" /\ ret) =>
       \E c \in Cells :
         /\ shifted[c[1]][c[2]] = 0
         /\ board[c[1]][c[2]] \in {2, 4}
         /\ \A e \in Cells \ {c} : board[e[1]][e[2]] = shifted[e[1]][e[2]]
  /\ (op = "move" /\ preBoard = TestRight /\ dir = "Right") =>
       ret /\ shifted = TestRightShifted
C3_Witness ==
  /\ op = "move" /\ preBoard = TestRight /\ dir = "Right" /\ ret
  /\ board # shifted

\* the lines of board b as direction d reads them, target end first
LinesOf(b, d) ==
  CASE d = "Up" -> [j \in Idx |-> [i \in Idx |-> b[i][j]]]
    [] d = "Down" -> [j \in Idx |-> [i \in Idx |-> b[SIZE + 1 - i][j]]]
    [] d = "Left" -> [i \in Idx |-> b[i]]
    [] d = "Right" -> [i \in Idx |-> [j \in Idx |-> b[i][SIZE + 1 - j]]]
RECURSIVE SumGains(_, _)
SumGains(ls, n) == IF n = 0 THEN 0 ELSE MergeRef(ls[n]).gain + SumGains(ls, n - 1)
RefGain(b, d) == SumGains(LinesOf(b, d), SIZE)

\* C4: a move adds to the score the pre-merge value v of every pair it
\* merges, and nothing else, so the score never goes down across a move.
C4_ScoreGain ==
  op = "move" =>
    /\ score = preScore + RefGain(preBoard, dir)
    /\ score >= preScore
C4_Witness ==
  op = "move" /\ preScore = 10 /\ score = 30 /\ preBoard = TestRight

\* C5: from Game2048::default(), moves and undos keep every cell 0 or a
\* power of two that is at least 2.
RECURSIVE IsPow2(_)
IsPow2(v) == v >= 2 /\ (v = 2 \/ (v % 2 = 0 /\ IsPow2(v \div 2)))
C5_PowersOfTwo ==
  \A c \in Cells : board[c[1]][c[2]] = 0 \/ IsPow2(board[c[1]][c[2]])
C5_Witness ==
  /\ op = "undo" /\ ret
  /\ \E c \in Cells : preBoard[c[1]][c[2]] = 8

\* C6: a move that returns false leaves the board, the score and the whole
\* undo history as they were, whatever the length of the history.
C6_NoOpFrame ==
  (op = "move" /\ ~ret) =>
    board = preBoard /\ score = preScore /\ previous_states = preHist
\* a move that returned false on a full history, which lost its oldest snapshot
C6_Witness ==
  /\ op = "move" /\ ~ret /\ Len(preHist) = UNDO_LIMIT
  /\ previous_states = Tail(preHist)
\* what the code keeps of C6: the board and the score, and the history while
\* it holds fewer than UNDO_LIMIT snapshots
C6_BelowLimit ==
  (op = "move" /\ ~ret) =>
    /\ board = preBoard /\ score = preScore
    /\ Len(preHist) < UNDO_LIMIT => previous_states = preHist
    /\ Len(preHist) = UNDO_LIMIT => previous_states = Tail(preHist)

\* C7: undo called right after a move that returned true returns true and
\* brings back the pre-move board and score.
C7_UndoRoundTrip ==
  (op = "undo" /\ run.has /\ run.undone /\ run.noops = 0) =>
    ret /\ board = run.base[1] /\ score = run.base[2]
C7_Witness ==
  /\ op = "undo" /\ run.has /\ run.undone /\ run.noops = 0 /\ ret
  /\ score < preScore /\ Len(previous_states) = MaxMoves - 1

\* C8: in a fresh game, after UNDO_LIMIT + 1 board-changing moves with no
\* undo in between, the first UNDO_LIMIT consecutive undo calls return true
\* and restore the pre-move states of moves K+1, K, .., 2, and the next undo
\* call returns false.
C8_UndoCapacity ==
  (unmixed /\ op = "undo" /\ Len(pres) = UNDO_LIMIT + 1) =>
    /\ nundo <= UNDO_LIMIT =>
         ret /\ <<board, score>> = pres[UNDO_LIMIT + 2 - nundo].pre
    /\ nundo > UNDO_LIMIT => ~ret
\* the UNDO_LIMIT-th undo after UNDO_LIMIT + 1 board-changing moves and a move
\* that changed nothing: it finds the history empty
C8_Witness ==
  /\ unmixed /\ op = "undo" /\ Len(pres) = UNDO_LIMIT + 1
  /\ pres[UNDO_LIMIT + 1].noops >= 1 /\ nundo = UNDO_LIMIT /\ ~ret
\* what the code keeps of C8: the same, when no move call that changed
\* nothing came after the last of the UNDO_LIMIT + 1 moves
C8_DirectUndoCapacity ==
  (unmixed /\ op = "undo" /\ Len(pres) = UNDO_LIMIT + 1
     /\ pres[UNDO_LIMIT + 1].noops = 0) =>
    /\ nundo <= UNDO_LIMIT =>
         ret /\ <<board, score>> = pres[UNDO_LIMIT + 2 - nundo].pre
    /\ nundo > UNDO_LIMIT => ~ret
C8_DirectWitness ==
  /\ unmixed /\ op = "undo" /\ Len(pres) = UNDO_LIMIT + 1
  /\ pres[UNDO_LIMIT + 1].noops = 0 /\ nundo = UNDO_LIMIT + 1 /\ ~ret

\* C9: when moves that return false follow a move that returned true, the
\* board holds no new tile, and the next undo brings back the board and the
\* score from just before that board-changing move.
C9_NoOpThenUndo ==
  /\ (run.has /\ ~run.undone /\ run.noops >= 1) =>
       op = "move" /\ ~ret /\ board = run.after
  /\ (op = "undo" /\ run.has /\ run.undone /\ run.noops >= 1) =>
       ret /\ board = run.base[1] /\ score = run.base[2]
C9_Witness ==
  /\ op = "undo" /\ run.has /\ run.undone /\ run.noops >= 2 /\ ret
  /\ board # preBoard /\ Len(preHist) = UNDO_LIMIT - 1

\* C10: the history never holds more than UNDO_LIMIT snapshots, an undo that
\* returns true shortens it by exactly one, and moves made after undos are
\* capped as well.
C10_HistoryBound ==
  /\ Len(previous_states) <= UNDO_LIMIT
  /\ (op = "undo" /\ ret) =>
       /\ Len(previous_states) = Len(preHist) - 1
       /\ previous_states = SubSeq(preHist, 1, Len(preHist) - 1)
C10_Witness ==
  /\ op = "move" /\ ret /\ ~unmixed
  /\ Len(preHist) = UNDO_LIMIT /\ Len(previous_states) = UNDO_LIMIT

\* C11: undo on an empty history (fresh game, or every snapshot consumed)
\* returns false and leaves the board, the score and the empty history as they
\* were; undo returns true exactly when the history was not empty.
C11_UndoEmpty ==
  op = "undo" =>
    /\ ret <=> (Len(preHist) > 0)
    /\ Len(preHist) = 0 =>
         board = preBoard /\ score = preScore /\ previous_states = <<>>
C11_Witness ==
  /\ op = "undo" /\ ~ret /\ unmixed /\ Len(pres) >= 2 /\ nundo = Len(pres) + 1
  /\ Len(preHist) = 0

\* two cells that touch along a row or along a column
Adjacent(c, e) ==
  \/ c[1] = e[1] /\ (c[2] = e[2] + 1 \/ e[2] = c[2] + 1)
  \/ c[2] = e[2] /\ (c[1] = e[1] + 1 \/ e[1] = c[1] + 1)
Stuck(b) ==
  /\ \A c \in Cells : b[c[1]][c[2]] # 0
  /\ \A c \in Cells : \A e \in Cells :
       Adjacent(c, e) => b[c[1]][c[2]] # b[e[1]][e[2]]

\* C12: game_over() returns true exactly on the boards with no empty cell and
\* no two equal cells next to each other in a row or a column, and leaves the
\* game as it was; the board of test_game_over is game over.
C12_GameOverIff ==
  op = "game_over" =>
    /\ ret <=> Stuck(board)
    /\ board = preBoard /\ score = preScore /\ previous_states = preHist
    /\ board = TestOver => ret
C12_Witness ==
  op = "game_over" /\ board = TestOver /\ ret

\* the cells of board b that hold a tile
TileCells(b) == { c \in Cells : b[c[1]][c[2]] # 0 }
\* what Game2048::default() is said to give
FreshGame(b, sc, h) ==
  /\ sc = 0
  /\ h = <<>>
  /\ Cardinality(TileCells(b)) = 2
  /\ \A c \in TileCells(b) : b[c[1]][c[2]] \in {2, 4}
  /\ Cardinality(Cells \ TileCells(b)) = SIZE * SIZE - 2

\* C13: a game made by Game2048::default() has score 0, an empty undo
\* history, and a board with exactly two tiles, each 2 or 4, and
\* SIZE * SIZE - 2 empty cells.
C13_FreshGame ==
  op = "init" => FreshGame(board, score, previous_states)
C13_Witness ==
  /\ op = "init" /\ board[1][1] = 2 /\ board[SIZE][SIZE] = 4
  /\ score = 0 /\ previous_states = <<>>

\* the board symmetries: left-right mirror, transpose, top-bottom flip
MirrorH(b) == Collect([i \in Idx |-> Collect([j \in Idx |-> b[i][SIZE + 1 - j]])])
Transpose(b) == Collect([i \in Idx |-> Collect([j \in Idx |-> b[j][i]])])
FlipV(b) == Collect([i \in Idx |-> b[SIZE + 1 - i]])

\* C14: the board after the shift, the score and the returned flag of a move
\* Right are those of Left on the mirrored board, mirrored back; of a move Up
\* those of Left on the transposed board, transposed back; of a move Down
\* those of Up on the flipped board, flipped back.
C14_Symmetry ==
  op = "move" =>
    /\ dir = "Right" =>
         LET l == move_left(MirrorH(preBoard), preScore)
         IN  shifted = MirrorH(l.board) /\ score = l.score /\ ret = l.moved
    /\ dir = "Up" =>
         LET l == move_left(Transpose(preBoard), preScore)
         IN  shifted = Transpose(l.board) /\ score = l.score /\ ret = l.moved
    /\ dir = "Down" =>
         LET u == move_up(FlipV(preBoard), preScore)
         IN  shifted = FlipV(u.board) /\ score = u.score /\ ret = u.moved
C14_Witness ==
  /\ op = "move" /\ dir = "Down" /\ preBoard = TestDown /\ ret
  /\ score = preScore + 2
  /\ shifted = <<<<0, 0, 0, 0>>, <<0, 0, 0, 0>>, <<4, 0, 0, 0>>, <<4, 0, 0, 0>>>>

\* C15: the game-over screen is shown only for a board on which game_over()
\* is true, and a key event read there makes no move_in_direction and no undo
\* call: q or Esc ends the run, r puts a newly constructed game in place and
\* goes back to the outer loop, every other key leaves the game and the
\* screen as they are.  Play resumes only with a newly constructed game.
C15_OverOnlyQuitOrRestart ==
  [][mode = "over" =>
       /\ game_over(board)
       /\ \/ /\ key' = "q" /\ mode' = "quit"
             /\ UNCHANGED <<board, score, previous_states, op, ret>>
          \/ /\ key' = "r" /\ mode' = "main" /\ op' = "restart"
             /\ FreshGame(board', score', previous_states')
          \/ /\ key' \notin {"q", "r"} /\ mode' = "over"
             /\ UNCHANGED <<board, score, previous_states, op, ret>>]_vars
C15_Witness ==
  /\ preMode = "over" /\ mode = "over" /\ key \in Dirs \cup {"u"}
  /\ game_over(board) /\ op = "move" /\ ret

\* C16: the game put in place by a restart has score 0, an empty history and
\* exactly two tiles, each 2 or 4, on an otherwise empty board, whatever the
\* game before it held; an undo called right after a restart returns false
\* and leaves that game as it is.
C16_RestartFresh ==
  /\ op = "restart" => FreshGame(board, score, previous_states)
  /\ (op = "undo" /\ prevOp = "restart") =>
       /\ ~ret
       /\ board = preBoard /\ score = preScore
       /\ FreshGame(board, score, previous_states)
C16_Witness ==
  /\ op = "undo" /\ prevOp = "restart" /\ ~ret
  /\ FreshGame(board, score, previous_states)
C16_WitnessRestart ==
  /\ op = "restart" /\ Len(preHist) = UNDO_LIMIT /\ preScore > 0
  /\ FreshGame(board, score, previous_states)

\* C17: after the key r the game is a newly constructed one, in the outer
\* loop as well as on the game-over screen.
C17_ResetAlways ==
  (key = "r" /\ mode # "quit") =>
    /\ op = "restart"
    /\ FreshGame(board, score, previous_states)
C17_Witness ==
  /\ key = "r" /\ preMode = "main" /\ mode = "main"
  /\ op = "move" /\ ret /\ Len(previous_states) > 0
  /\ ~FreshGame(board, score, previous_states)
\* what the code does keep: r replaces the game on the game-over screen and
\* is ignored in the outer loop
C17_ResetOnlyWhenOver ==
  [][key' = "r" =>
       IF mode = "over"
       THEN op' = "restart" /\ FreshGame(board', score', previous_states')
       ELSE UNCHANGED <<board, score, previous_states, op, mode>>]_vars

\* o holds the tiles of t, in order, each kept as it is or made of two equal
\* neighbours of t, every tile of t used exactly once
RECURSIVE MergedOnce(_, _)
MergedOnce(t, o) ==
  IF Len(t) = 0 THEN Len(o) = 0
  ELSE /\ Len(o) > 0
       /\ \/ o[1] = t[1] /\ MergedOnce(Tail(t), Tail(o))
          \/ /\ Len(t) >= 2 /\ t[1] = t[2] /\ o[1] = 2 * t[1]
             /\ MergedOnce(Tail(Tail(t)), Tail(o))
ColumnOf(b, j) == [i \in Idx |-> b[i][j]]

\* C18: in one move every tile of a result line is one input tile unchanged
\* or the sum of two equal input tiles that were neighbours ignoring zeros,
\* and no tile made by a merge is merged again: [2,2,4,0] gives [4,4,0,0],
\* [2,2,2,2] gives [4,4,0,0], the column [2,2,4,8] moved Up gives [4,4,8,0].
C18_MergeOnce ==
  op = "move" =>
    /\ \A n \in Idx :
         MergedOnce(NonZero(LinesOf(preBoard, dir)[n]),
                    NonZero(LinesOf(shifted, dir)[n]))
    /\ \A i \in Idx :
         /\ (dir = "Left" /\ preBoard[i] = <<2, 2, 4, 0>>) => shifted[i] = <<4, 4, 0, 0>>
         /\ (dir = "Left" /\ preBoard[i] = <<2, 2, 2, 2>>) => shifted[i] = <<4, 4, 0, 0>>
         /\ (dir = "Up" /\ ColumnOf(preBoard, i) = <<2, 2, 4, 8>>) =>
              ColumnOf(shifted, i) = <<4, 4, 8, 0>>
C18_Witness ==
  /\ op = "move" /\ dir = "Left" /\ preBoard = MergeRows
  /\ shifted[1] = <<4, 4, 0, 0>> /\ shifted[2] = <<4, 4, 0, 0>>
C18_WitnessUp ==
  /\ op = "move" /\ dir = "Up" /\ preBoard = TestUp
  /\ ColumnOf(shifted, 1) = <<4, 4, 8, 0>>

\* C19: when the three tiles nearest the edge a move points to are equal (and
\* a fourth, if any, differs), the two nearest the edge merge and the third
\* stays single, in every direction: Left turns [v,v,v,0] into [2v,v,0,0] and
\* Right turns [0,v,v,v] into [0,0,v,2v].
C19_TieBreak ==
  op = "move" =>
    /\ \A n \in Idx :
         LET t == NonZero(LinesOf(preBoard, dir)[n])
             o == LinesOf(shifted, dir)[n]
         IN  (/\ Len(t) >= 3 /\ t[1] = t[2] /\ t[2] = t[3]
              /\ (Len(t) = 3 \/ t[4] # t[3])) =>
               /\ o[1] = 2 * t[1] /\ o[2] = t[1]
               /\ o[3] = (IF Len(t) = 3 THEN 0 ELSE t[4]) /\ o[4] = 0
    /\ \A i \in Idx :
         /\ (dir = "Left" /\ preBoard[i] = <<2, 2, 2, 0>>) => shifted[i] = <<4, 2, 0, 0>>
         /\ (dir = "Right" /\ preBoard[i] = <<0, 2, 2, 2>>) => shifted[i] = <<0, 0, 2, 4>>
         /\ (dir = "Up" /\ ColumnOf(preBoard, i) = <<2, 2, 2, 0>>) =>
              ColumnOf(shifted, i) = <<4, 2, 0, 0>>
         /\ (dir = "Down" /\ ColumnOf(preBoard, i) = <<0, 2, 2, 2>>) =>
              ColumnOf(shifted, i) = <<0, 0, 2, 4>>
C19_Witness ==
  /\ op = "move" /\ dir = "Right" /\ preBoard = MergeRows
  /\ shifted[4] = <<0, 0, 2, 4>> /\ shifted[3] = <<0, 0, 2, 4>>
C19_WitnessDown ==
  /\ op = "move" /\ dir = "Down" /\ preBoard = MergeCols
  /\ ColumnOf(shifted, 4) = <<0, 0, 2, 4>>

\* C20: on every board where game_over() returns true, a move in any of the
\* four directions returns false and leaves the board and the score as they
\* were.
C20_StuckWhenOver ==
  (op = "move" /\ game_over(preBoard)) =>
    ~ret /\ board = preBoard /\ score = preScore
C20_Witness ==
  /\ op = "move" /\ dir = "Up" /\ preBoard = TestOver /\ game_over(preBoard)
  /\ ~ret /\ board = TestOver

\* some direction makes move_in_direction return true on board b: the flag
\* it returns is the flag of its shift
CanMove(b, sc) == \E d \in Dirs : Shift(b, sc, d).moved

\* C21: in every state of a game played from a new game by moves and undos,
\* game_over() is false exactly when a move in some direction returns true.
C21_OverIffNoMove == game_over(board) <=> ~CanMove(board, score)
C21_Witness ==
  /\ ~game_over(board) /\ Len(EmptyCells(board)) = 0
  /\ CanMove(board, score)
C21_WitnessOver ==
  /\ game_over(board) /\ ~CanMove(board, score) /\ op = "move" /\ ret
\* a game never holds fewer than two tiles: the board with no tile, on which
\* game_over() is false and no move changes anything, is never reached
C21_TwoTiles == Cardinality(TileCells(board)) >= 2
\* the same on the boards set by hand, those with no tile left aside
C21_OnBoards ==
  (op = "init" /\ TileCells(board) # {}) =>
    (game_over(board) <=> ~CanMove(board, score))

\* the sum of the cells of board b, cells n .. SIZE * SIZE in row-major order
RECURSIVE BoardSumFrom(_, _)
BoardSumFrom(b, n) ==
  IF n > Len(AllCells) THEN 0
  ELSE b[AllCells[n][1]][AllCells[n][2]] + BoardSumFrom(b, n + 1)
BoardSum(b) == BoardSumFrom(b, 1)

\* C22: the shift-and-merge of a move keeps the sum of the cells of the
\* board; a move that returns true raises the sum by the value of the one
\* tile it spawns, 2 or 4, and a move that returns false leaves it as it was.
C22_SumConserved ==
  op = "move" =>
    /\ BoardSum(shifted) = BoardSum(preBoard)
    /\ ret => BoardSum(board) - BoardSum(preBoard) \in SpawnVals
    /\ ~ret => BoardSum(board) = BoardSum(preBoard)
C22_Witness ==
  /\ op = "move" /\ ret /\ score > preScore
  /\ BoardSum(shifted) = BoardSum(preBoard)
  /\ BoardSum(board) = BoardSum(preBoard) + 4
C22_WitnessNoop ==
  /\ op = "move" /\ ~ret /\ BoardSum(preBoard) > 0
  /\ BoardSum(board) = BoardSum(preBoard)

\* C23: no snapshot of the history is a board on which game_over() is true,
\* so after an undo that returned true game_over() is false.
C23_HistoryPlayable ==
  /\ \A n \in 1..Len(previous_states) : ~game_over(previous_states[n][1])
  /\ (op = "undo" /\ ret) => ~game_over(board)
C23_Witness ==
  /\ op = "undo" /\ ret /\ game_over(preBoard) /\ ~game_over(board)
  /\ Len(preHist) = UNDO_LIMIT

\* the largest cell of board b
MaxTile(b) == CHOOSE v \in { b[c[1]][c[2]] : c \in Cells } :
                \A c \in Cells : b[c[1]][c[2]] <= v

C25_EnginesAgree ==
  /\ mainBoard = board
  /\ mainScore = score
  /\ op = "move" => mainRet = ret
  /\ main_game_over(mainBoard) = game_over(board)
C25_Witness ==
  /\ op = "move" /\ ret /\ mainRet /\ score > preScore
  /\ mainBoard = board /\ mainScore = score /\ depth = MaxPairMoves
C25_WitnessOver ==
  /\ op = "move" /\ ret /\ mainRet
  /\ main_game_over(mainBoard) /\ game_over(board)

\* the cells in which boards a and b differ
DiffCells(a, b) == { c \in Cells : a[c[1]][c[2]] # b[c[1]][c[2]] }

\* C26: spawn_tile on a board with no empty cell leaves the board, the score
\* and the history as they were; on a board with an empty cell it changes
\* exactly one cell, which was empty and now holds 2 or 4, and nothing else.
C26_SpawnFrame ==
  op = "spawn" =>
    /\ score = preScore
    /\ previous_states = preHist
    /\ Len(EmptyCells(preBoard)) = 0 => board = preBoard
    /\ Len(EmptyCells(preBoard)) > 0 =>
         /\ Cardinality(DiffCells(preBoard, board)) = 1
         /\ \A c \in DiffCells(preBoard, board) :
              preBoard[c[1]][c[2]] = 0 /\ board[c[1]][c[2]] \in {2, 4}
C26_Witness ==
  /\ op = "spawn" /\ Len(EmptyCells(preBoard)) = 0 /\ board = preBoard
  /\ ~game_over(preBoard)
C26_WitnessSpawned ==
  /\ op = "spawn" /\ Len(EmptyCells(preBoard)) = SIZE
  /\ Cardinality(DiffCells(preBoard, board)) = 1 /\ preBoard[4][4] = 0 /\ board[4][4] = 4

====
